---- MODULE Spec2Model ----
(***************************************************************************)
(* Model of src/app.py, the Student Score Updater: a Streamlit script that *)
(* is re-run from top to bottom on every user interaction.  It joins a     *)
(* grade book (File A) with a live-scores sheet (File B) through an         *)
(* email -> student-id mapping read from a remote sheet, and conditionally *)
(* replaces "0.00" cells of a chosen column.                                *)
(*                                                                         *)
(* Text is a sequence of one-character strings.  A cell of a data frame is *)
(* a record tagged with the Python type of its value, so that astype(str)  *)
(* and the dtype inference of pandas are conversions, not the identity.    *)
(* pandas 2.x semantics: astype(str) turns a missing value into "nan".     *)
(***************************************************************************)
EXTENDS Naturals, Sequences, FiniteSets

(* ------------------------------ bounds -------------------------------- *)
MaxRowsA == 2
MaxRowsB == 2
MaxIdLen == 4
MaxReads == 3
MaxStale == 2

(* ------------------------------- text --------------------------------- *)
DigitChars == <<"0", "1", "2", "3", "4", "5", "6", "7", "8", "9">>

DigitChar(d) == DigitChars[d + 1]

IsDigit(c) == \E d \in 0..9 : DigitChars[d + 1] = c

DigitVal(c) == CHOOSE d \in 0..9 : DigitChars[d + 1] = c

RECURSIVE Digits(_)
Digits(n) == IF n < 10 THEN <<DigitChar(n)>>
             ELSE Digits(n \div 10) \o <<DigitChar(n % 10)>>

RECURSIVE LStrip(_)
LStrip(s) == IF s # <<>> /\ Head(s) = " " THEN LStrip(Tail(s)) ELSE s

RECURSIVE RStrip(_)
RStrip(s) == IF s # <<>> /\ s[Len(s)] = " "
             THEN RStrip(SubSeq(s, 1, Len(s) - 1)) ELSE s

Strip(s) == RStrip(LStrip(s))

LowerChar(c) == CASE c = "A" -> "a"
                  [] c = "B" -> "b"
                  [] c = "X" -> "x"
                  [] OTHER -> c

Lower(s) == [i \in 1..Len(s) |-> LowerChar(s[i])]

StartsWith(s, p) == Len(s) >= Len(p) /\ SubSeq(s, 1, Len(p)) = p

(* Python str.replace(p, r): every non-overlapping occurrence, left to right *)
RECURSIVE ReplaceAll(_, _, _)
ReplaceAll(s, p, r) ==
    IF s = <<>> THEN <<>>
    ELSE IF StartsWith(s, p)
         THEN r \o ReplaceAll(SubSeq(s, Len(p) + 1, Len(s)), p, r)
         ELSE <<Head(s)>> \o ReplaceAll(Tail(s), p, r)

(* ------------------------------- cells -------------------------------- *)
(* "float" cells hold the value in hundredths (c = 8500 is 85.0).          *)
NaN == [k |-> "nan"]
Str(s) == [k |-> "str", s |-> s]
Int(n) == [k |-> "int", n |-> n]
Flt(c) == [k |-> "float", c |-> c]

NanText == <<"n", "a", "n">>

(* repr of a non-negative float with at most two fractional digits *)
FloatRepr(c) ==
    Digits(c \div 100) \o <<".">> \o
    (IF c % 100 = 0 THEN <<"0">>
     ELSE IF c % 10 = 0 THEN <<DigitChar((c \div 10) % 10)>>
     ELSE <<DigitChar((c \div 10) % 10), DigitChar(c % 10)>>)

(* str(value), elementwise astype(str) *)
PyStr(v) == CASE v.k = "str" -> v.s
              [] v.k = "int" -> Digits(v.n)
              [] v.k = "float" -> FloatRepr(v.c)
              [] v.k = "nan" -> NanText

(* f"{float(x):.2f}" *)
Format2Alt(c) == FloatRepr(c)

Format2(c) == Digits(c \div 100) \o
              <<".", DigitChar((c \div 10) % 10), DigitChar(c % 10)>>

(* dtype inference of a column: integers next to a missing value (or a    *)
(* float) become floats; next to any text the column is object and every  *)
(* value keeps its type.                                                   *)
Coerce(col) ==
    IF \E i \in 1..Len(col) : col[i].k = "str" THEN col
    ELSE IF \E i \in 1..Len(col) : col[i].k \in {"nan", "float"}
         THEN [i \in 1..Len(col) |->
                 IF col[i].k = "int" THEN Flt(col[i].n * 100) ELSE col[i]]
         ELSE col

(* ------------------------- numeric conversion ------------------------- *)
AllDigits(s) == \A i \in 1..Len(s) : IsDigit(s[i])

RECURSIVE DecVal(_)
DecVal(s) == IF s = <<>> THEN 0
             ELSE DecVal(SubSeq(s, 1, Len(s) - 1)) * 10 + DigitVal(s[Len(s)])

DotPos(s) == IF \E i \in 1..Len(s) : s[i] = "."
             THEN CHOOSE i \in 1..Len(s) :
                     s[i] = "." /\ \A j \in 1..(i - 1) : s[j] # "."
             ELSE 0

(* pd.to_numeric(text, errors="coerce") on unsigned decimal text, in       *)
(* hundredths.  The texts of the model carry at most two fractional        *)
(* digits, for which the later round(2) is exact; anything that is not a   *)
(* decimal number ("", "nan", "x") is coerced to a missing value.          *)
ToNumeric(s) ==
    LET p == DotPos(s)
        ip == IF p = 0 THEN s ELSE SubSeq(s, 1, p - 1)
        fp == IF p = 0 THEN <<>> ELSE SubSeq(s, p + 1, Len(s))
        frac == IF Len(fp) = 0 THEN 0
                ELSE IF Len(fp) = 1 THEN DigitVal(fp[1]) * 10
                ELSE DecVal(fp)
    IN IF AllDigits(ip) /\ AllDigits(fp) /\ Len(ip) + Len(fp) > 0 /\ Len(fp) <= 2
       THEN Flt(DecVal(ip) * 100 + frac)
       ELSE NaN

(* lines 89-93: astype(str), drop ",", strip, to_numeric, fillna(0), round(2) *)
CleanTotalAlt(v) ==
    LET n == ToNumeric(Strip(ReplaceAll(PyStr(v), <<",">>, <<".">>)))
    IN IF n.k = "nan" THEN Flt(0) ELSE n

CleanTotal(v) ==
    LET n == ToNumeric(Strip(ReplaceAll(PyStr(v), <<",">>, <<>>)))
    IN IF n.k = "nan" THEN Flt(0) ELSE n

(* ---------------------------- normalization --------------------------- *)
(* lines 77-78 *)
NormalizeEmail(v) == Lower(Strip(PyStr(v)))

DotZero == <<".", "0">>

(* line 85: grade-book side *)
NormalizeIdA(v) == ReplaceAll(Strip(PyStr(v)), DotZero, <<>>)

(* line 86: live-scores side *)
NormalizeIdB(v) == Strip(PyStr(v))

(* ------------------------------- frames ------------------------------- *)
EmailCol == "SIS Login ID"
IdCol == "Student ID Number"
NewCol == "New Score"
TotalCol == "Total"
MapEmailCol == "email"
ScoreCol == "Score"

ColSet(df) == {df.cols[i] : i \in 1..Len(df.cols)}

HasCol(df, c) == c \in ColSet(df)

Column(df, c) == [i \in 1..Len(df.rows) |-> df.rows[i][c]]

NRows(df) == Len(df.rows)

NoFrame == [cols |-> <<>>, rows |-> <<>>]

(* the data frame pandas builds from parsed records: per-column dtypes *)
MakeFrame(cols, rows) ==
    LET raw == [cols |-> cols, rows |-> rows]
    IN [cols |-> cols,
        rows |-> [i \in 1..Len(rows) |->
                    [c \in ColSet(raw) |-> Coerce(Column(raw, c))[i]]]]

(* df[c] = values *)
SetColumn(df, c, vals) ==
    [cols |-> IF HasCol(df, c) THEN df.cols ELSE Append(df.cols, c),
     rows |-> [i \in 1..Len(df.rows) |->
                 [d \in ColSet(df) \cup {c} |->
                    IF d = c THEN vals[i] ELSE df.rows[i][d]]]]

RECURSIVE SeqWithout(_, _)
SeqWithout(s, drop) ==
    IF s = <<>> THEN <<>>
    ELSE IF Head(s) \in drop THEN SeqWithout(Tail(s), drop)
         ELSE <<Head(s)>> \o SeqWithout(Tail(s), drop)

(* df.drop(columns=...) *)
DropColumns(df, drop) ==
    [cols |-> SeqWithout(df.cols, drop),
     rows |-> [i \in 1..Len(df.rows) |->
                 [d \in ColSet(df) \ drop |-> df.rows[i][d]]]]

(* series.map(dict(zip(keys, vals))): the last pair wins, no key -> NaN *)
MapThrough(keys, vals, k) ==
    IF \E i \in 1..Len(keys) : keys[i] = k
    THEN vals[CHOOSE i \in 1..Len(keys) :
                 keys[i] = k /\ \A j \in (i + 1)..Len(keys) : keys[j] # k]
    ELSE NaN

(* ------------------------- the reconciliation ------------------------- *)
ZeroText == <<"0", ".", "0", "0">>

RequiredPresent(df_a, df_b, mapping_df) ==
    /\ HasCol(df_a, EmailCol)
    /\ HasCol(mapping_df, MapEmailCol)
    /\ HasCol(mapping_df, IdCol)
    /\ HasCol(df_b, IdCol)
    /\ HasCol(df_b, TotalCol)

(* lines 77 and 81-85: df_a with its e-mail column normalized in place and *)
(* the "Student ID Number" column attached and normalized                  *)
AttachIds(df_a, mapping_df) ==
    LET a1 == SetColumn(df_a, EmailCol,
                  [i \in 1..NRows(df_a) |->
                      Str(NormalizeEmail(df_a.rows[i][EmailCol]))])
        keys == [i \in 1..NRows(mapping_df) |->
                    NormalizeEmail(mapping_df.rows[i][MapEmailCol])]
        vals == Column(mapping_df, IdCol)
        mapped == Coerce([i \in 1..NRows(a1) |->
                             MapThrough(keys, vals, a1.rows[i][EmailCol].s)])
    IN SetColumn(a1, IdCol,
           [i \in 1..NRows(a1) |-> Str(NormalizeIdA(mapped[i]))])

(* lines 86-93: df_b with normalized identifiers and numeric totals *)
CleanScores(df_b) ==
    LET b1 == SetColumn(df_b, IdCol,
                  [i \in 1..NRows(df_b) |->
                      Str(NormalizeIdB(df_b.rows[i][IdCol]))])
    IN SetColumn(b1, TotalCol,
           [i \in 1..NRows(b1) |-> CleanTotal(b1.rows[i][TotalCol])])

(* lines 96-99: score_map and the "New Score" column *)
AttachScores(a, b) ==
    LET keys == [i \in 1..NRows(b) |-> b.rows[i][IdCol].s]
        vals == Column(b, TotalCol)
    IN SetColumn(a, NewCol,
           [i \in 1..NRows(a) |-> MapThrough(keys, vals, a.rows[i][IdCol].s)])

(* line 116, one row *)
ReplaceCell(row, col) ==
    IF row[NewCol].k # "nan" /\ Strip(PyStr(row[col])) = ZeroText
    THEN Str(Format2(row[NewCol].c))
    ELSE row[col]

(* lines 115-118 *)
UpdateColumn(df, col) ==
    SetColumn(df, col, [i \in 1..NRows(df) |-> ReplaceCell(df.rows[i], col)])

(* line 131 *)
CountNotNa(df) == Cardinality({i \in 1..NRows(df) : df.rows[i][NewCol].k # "nan"})

(* line 132 *)
CountIsNaAlt(df) ==
    Cardinality({i \in 1..NRows(df) : df.rows[i][IdCol].s = NanText})

CountIsNa(df) == Cardinality({i \in 1..NRows(df) : df.rows[i][NewCol].k = "nan"})

(* ----------------------------- the script ----------------------------- *)
(* file_a, file_b, update_col: the widgets' values; sheet: the remote       *)
(* sheet; cache: the st.cache_data entry of load_google_sheet_with_auth;   *)
(* out: what the last run of the script rendered.  reads counts the runs   *)
(* of the loader's body, stale the runs served from the cache while the    *)
(* remote sheet no longer reads as the cached frame.  probe is an          *)
(* identifier text put through line 85 repeatedly.                         *)
VARIABLES file_a, file_b, sheet, cache, update_col, out, reads, stale, probe

vars == <<file_a, file_b, sheet, cache, update_col, out, reads, stale, probe>>

NoFile == [kind |-> "none"]
BadFile == [kind |-> "bad"]
CsvFile(cols, rows) == [kind |-> "csv", cols |-> cols, rows |-> rows]

Unreadable == [kind |-> "unreadable"]
Records(cols, rows) == [kind |-> "records", cols |-> cols, rows |-> rows]

NotCached == [kind |-> "none"]
CachedFrame(df) == [kind |-> "frame", df |-> df]

(* lines 61-62: pd.read_csv of an uploaded file that parses *)
ReadCsv(f) == MakeFrame(f.cols, f.rows)

(* lines 27-41, the body of load_google_sheet_with_auth: any exception is  *)
(* reported and an empty frame returned                                    *)
LoadSheet(s) == IF s.kind = "unreadable" THEN NoFrame
                ELSE MakeFrame(s.cols, s.rows)

(* line 25, st.cache_data: the value returned by the first call is kept *)
CacheAfterAlt(c, s) == CachedFrame(LoadSheet(s))

CacheAfter(c, s) == IF c.kind = "none" THEN CachedFrame(LoadSheet(s)) ELSE c

(* line 68, mapping_df.empty *)
IsEmpty(df) == NRows(df) = 0 \/ Len(df.cols) = 0

(* line 103, st.selectbox: the kept choice when it is still an option,     *)
(* else the first option                                                   *)
Selected(df, col) == IF HasCol(df, col) THEN col ELSE df.cols[1]

Result(status, a, b, upd, n_upd, n_nf) ==
    [status |-> status, df_a |-> a, df_b |-> b, df_updated |-> upd,
     updated_count |-> n_upd, not_found_count |-> n_nf]

Idle == Result("idle", NoFrame, NoFrame, NoFrame, 0, 0)

(* lines 69-146, the body of the try block.  The headers of the inputs    *)
(* carry no surrounding whitespace, so lines 71-73 leave them as they are; *)
(* a missing column raises KeyError, which line 147 catches.               *)
Process(df_a, df_b, mapping_df, col, button) ==
    IF ~RequiredPresent(df_a, df_b, mapping_df)
    THEN Result("error", NoFrame, NoFrame, NoFrame, 0, 0)
    ELSE LET b == CleanScores(df_b)
             a == AttachScores(AttachIds(df_a, mapping_df), b)
             sel == Selected(a, col)
             u == UpdateColumn(a, sel)
         IN IF button
            THEN Result("updated", u, b, DropColumns(u, {IdCol, NewCol}),
                        CountNotNa(u), CountIsNa(u))
            ELSE Result("preview", a, b, NoFrame, 0, 0)

(* lines 59-150, one run of the script; reading a file that cannot be      *)
(* parsed raises outside the try block                                     *)
Script(fa, fb, c, s, col, button) ==
    IF fa.kind = "none" \/ fb.kind = "none" THEN Idle
    ELSE IF fa.kind = "bad" \/ fb.kind = "bad"
         THEN Result("unhandled", NoFrame, NoFrame, NoFrame, 0, 0)
         ELSE LET mapping_df == CacheAfter(c, s).df
              IN IF IsEmpty(mapping_df)
                 THEN Result("warning", NoFrame, NoFrame, NoFrame, 0, 0)
                 ELSE Process(ReadCsv(fa), ReadCsv(fb), mapping_df, col, button)

(* whether this run reaches line 66 *)
LoadsMapping(fa, fb) == fa.kind = "csv" /\ fb.kind = "csv"

Rerun(fa, fb, col, button) ==
    /\ out' = Script(fa, fb, cache, sheet, col, button)
    /\ cache' = IF LoadsMapping(fa, fb) THEN CacheAfter(cache, sheet) ELSE cache
    /\ reads' = IF LoadsMapping(fa, fb) /\ cache.kind = "none"
                THEN reads + 1 ELSE reads
    /\ reads' <= MaxReads
    /\ stale' = IF /\ LoadsMapping(fa, fb)
                   /\ cache.kind = "frame"
                   /\ cache.df # LoadSheet(sheet)
                   /\ stale < MaxStale
                THEN stale + 1 ELSE stale
    /\ update_col' = IF out'.status \in {"preview", "updated"}
                     THEN Selected(out'.df_a, col) ELSE col

(* ------------------------------- inputs ------------------------------- *)
T_AX_padded == <<" ", "A", "@", "X", ".", "c", "o", "m", " ">>
T_ax == <<"a", "@", "x", ".", "c", "o", "m">>
T_Ax_trail == <<"A", "@", "x", ".", "c", "o", "m", " ">>
T_bx == <<"b", "@", "x", ".", "c", "o", "m">>
T_cx == <<"c", "@", "x", ".", "c", "o", "m">>
T_1001 == <<"1", "0", "0", "1">>
T_1001_0 == <<"1", "0", "0", "1", ".", "0">>
T_1_05 == <<"1", ".", "0", "5">>
T_85c0 == <<"8", "5", ",", "0">>
T_7_5 == <<"7", ".", "5">>
T_x == <<"x">>
T_12_00 == <<"1", "2", ".", "0", "0">>
T_zero_padded == <<" ", "0", ".", "0", "0", " ">>

GradeCols == <<EmailCol, ScoreCol>>
GradeRow(e, v) == [c \in {EmailCol, ScoreCol} |-> IF c = EmailCol THEN e ELSE v]

GradeRows == {GradeRow(Str(T_AX_padded), Str(ZeroText)),
              GradeRow(Str(T_bx), Str(T_12_00)),
              GradeRow(Str(T_cx), Str(T_zero_padded))}

LiveCols == <<IdCol, TotalCol>>
LiveRow(i, v) == [c \in {IdCol, TotalCol} |-> IF c = IdCol THEN i ELSE v]

LiveRows == {LiveRow(Int(1001), Str(T_85c0)),
             LiveRow(NaN, Str(T_7_5)),
             LiveRow(Int(15), Str(T_x))}

MapCols == <<MapEmailCol, IdCol>>
MapRow(e, i) == [c \in {MapEmailCol, IdCol} |-> IF c = MapEmailCol THEN e ELSE i]

SeqsUpTo(S, n) == UNION {[1..k -> S] : k \in 1..n}

(* grade books and live-score sheets of 1..Max rows *)
TablesA == {CsvFile(GradeCols, r) : r \in SeqsUpTo(GradeRows, MaxRowsA)}
TablesB == {CsvFile(LiveCols, r) : r \in SeqsUpTo(LiveRows, MaxRowsB)}

(* the files of the session model: none, unparseable, a required column    *)
(* missing, and two well-formed ones                                       *)
FilesA == {NoFile, BadFile,
           CsvFile(<<ScoreCol>>, <<[c \in {ScoreCol} |-> Str(ZeroText)]>>),
           CsvFile(GradeCols, <<GradeRow(Str(T_AX_padded), Str(ZeroText))>>),
           CsvFile(GradeCols, <<GradeRow(Str(T_cx), Str(T_zero_padded))>>)}

FilesB == {NoFile, BadFile,
           CsvFile(<<IdCol>>, <<[c \in {IdCol} |-> Int(1001)]>>),
           CsvFile(LiveCols, <<LiveRow(Int(1001), Str(T_85c0))>>)}

(* states of the remote "enrolled" sheet *)
Sheets == {Unreadable,
           Records(<<>>, <<>>),
           Records(<<MapEmailCol>>, <<[c \in {MapEmailCol} |-> Str(T_ax)]>>),
           Records(MapCols, <<MapRow(Str(T_ax), Str(T_1001_0))>>),
           Records(MapCols, <<MapRow(Str(T_Ax_trail), Int(1001)),
                              MapRow(Str(T_bx), Str(T_1_05))>>),
           Records(MapCols, <<MapRow(Str(T_ax), Int(7)),
                              MapRow(Str(T_ax), Int(1001)),
                              MapRow(Str(T_bx), Int(15))>>)}

Columns == {EmailCol, ScoreCol, IdCol, NewCol}

(* ------------------------------ actions ------------------------------- *)
(* the script has not run with both files yet: nothing uploaded, nothing   *)
(* cached; the remote sheet is in any of its states                        *)
NoProbe == [n |-> 0, s |-> <<>>, prev |-> <<>>]

Init ==
    /\ file_a = NoFile
    /\ file_b = NoFile
    /\ sheet \in Sheets
    /\ cache = NotCached
    /\ update_col = EmailCol
    /\ out = Idle
    /\ reads = 0
    /\ stale = 0
    /\ probe = NoProbe

(* line 56: File A chosen, replaced or removed; the script re-runs *)
UploadA(f) ==
    /\ file_a' = f
    /\ Rerun(f, file_b, update_col, FALSE)
    /\ UNCHANGED <<file_b, sheet, probe>>

(* line 57 *)
UploadB(f) ==
    /\ file_b' = f
    /\ Rerun(file_a, f, update_col, FALSE)
    /\ UNCHANGED <<file_a, sheet, probe>>

(* line 103: another option of the select box; the script re-runs *)
ChooseColumn(c) ==
    /\ out.status \in {"preview", "updated"}
    /\ c \in ColSet(out.df_a)
    /\ c # update_col
    /\ Rerun(file_a, file_b, c, FALSE)
    /\ UNCHANGED <<file_a, file_b, sheet, probe>>

(* line 111: the button is pressed; the script re-runs with it set *)
ClickUpdate ==
    /\ out.status \in {"preview", "updated"}
    /\ Rerun(file_a, file_b, update_col, TRUE)
    /\ UNCHANGED <<file_a, file_b, sheet, probe>>

(* the remote sheet is edited, shared or unshared by its owner *)
SheetChange(s) ==
    /\ s # sheet
    /\ sheet' = s
    /\ UNCHANGED <<file_a, file_b, cache, update_col, out, reads, stale, probe>>

Next ==
    \/ \E f \in FilesA : UploadA(f)
    \/ \E f \in FilesB : UploadB(f)
    \/ \E c \in Columns : ChooseColumn(c)
    \/ ClickUpdate
    \/ \E s \in Sheets : SheetChange(s)

Spec == Init /\ [][Next]_vars

(* one session over bounded tables: each file is uploaded once *)
NextData ==
    \/ \E f \in TablesA : file_a = NoFile /\ UploadA(f)
    \/ \E f \in TablesB : file_b = NoFile /\ UploadB(f)
    \/ \E c \in Columns : ChooseColumn(c)
    \/ ClickUpdate

SpecData == Init /\ [][NextData]_vars

(* line 85 applied to identifier texts of up to MaxIdLen characters *)
IdChars == {"1", "0", ".", " "}

IdTexts == UNION {[1..k -> IdChars] : k \in 0..MaxIdLen}

InitNorm ==
    /\ file_a = NoFile
    /\ file_b = NoFile
    /\ sheet = Unreadable
    /\ cache = NotCached
    /\ update_col = EmailCol
    /\ out = Idle
    /\ reads = 0
    /\ stale = 0
    /\ probe \in {[n |-> 0, s |-> t, prev |-> t] : t \in IdTexts}

NormalizeAgain ==
    /\ probe.n < 2
    /\ probe' = [n |-> probe.n + 1, s |-> NormalizeIdA(Str(probe.s)),
                 prev |-> probe.s]
    /\ UNCHANGED <<file_a, file_b, sheet, cache, update_col, out, reads, stale>>

SpecNorm == InitNorm /\ [][NormalizeAgain]_vars

(* ============================== claims ================================ *)
(* the grade book and live scores as read, the mapping as retrieved *)
InputA == ReadCsv(file_a)
InputB == ReadCsv(file_b)
Mapping == cache.df

Updated == out.status = "updated"

Processed == out.status \in {"preview", "updated"}

(* the target is a column of the grade book itself *)
TargetInBook == Updated /\ update_col \in ColSet(InputA)

RowsA == 1..NRows(InputA)

(* the specification's identifier normalization: text, trimmed, one        *)
(* trailing ".0" removed                                                   *)
SpecNormId(s) ==
    LET u == Strip(s)
    IN IF Len(u) >= 2 /\ SubSeq(u, Len(u) - 1, Len(u)) = DotZero
       THEN SubSeq(u, 1, Len(u) - 2) ELSE u

HasIdentity(i) ==
    \E j \in 1..NRows(Mapping) :
        NormalizeEmail(Mapping.rows[j][MapEmailCol])
            = NormalizeEmail(InputA.rows[i][EmailCol])

(* the identifier the mapping gives row i, as the mapped column holds it *)
MappedIds ==
    Coerce([i \in RowsA |->
        MapThrough([j \in 1..NRows(Mapping) |->
                       NormalizeEmail(Mapping.rows[j][MapEmailCol])],
                   Column(Mapping, IdCol),
                   NormalizeEmail(InputA.rows[i][EmailCol]))])

ResolvedId(i) == SpecNormId(PyStr(MappedIds[i]))

(* LiveScores row j carries identifier x (a blank cell carries none) *)
LiveRowHasId(j, x) ==
    /\ InputB.rows[j][IdCol].k # "nan"
    /\ SpecNormId(PyStr(InputB.rows[j][IdCol])) = x

Unresolved(i) ==
    \/ ~HasIdentity(i)
    \/ \A j \in 1..NRows(InputB) : ~LiveRowHasId(j, ResolvedId(i))

NewScoreOf(i) == out.df_a.rows[i][NewCol]

(* C1: after an update, every grade-book row without an identity match or  *)
(* without a live score for its identifier has no new score, keeps the     *)
(* target value of the input, and is among the not-found rows.             *)
C1_UnresolvedNeverUpdated ==
    TargetInBook =>
        /\ \A i \in RowsA : Unresolved(i) =>
              /\ NewScoreOf(i) = NaN
              /\ out.df_updated.rows[i][update_col] = InputA.rows[i][update_col]
        /\ out.not_found_count >= Cardinality({i \in RowsA : Unresolved(i)})

(* text is digits "." two digits and denotes c hundredths *)
IsTwoDecimalsOf(text, c) ==
    /\ Len(text) >= 4
    /\ text[Len(text) - 2] = "."
    /\ AllDigits(SubSeq(text, 1, Len(text) - 3))
    /\ AllDigits(SubSeq(text, Len(text) - 1, Len(text)))
    /\ DecVal(SubSeq(text, 1, Len(text) - 3)) * 100
          + DecVal(SubSeq(text, Len(text) - 1, Len(text))) = c

IsZeroCell(i) == Strip(PyStr(InputA.rows[i][update_col])) = ZeroText

C3_OthersUntouched ==
    TargetInBook =>
        \A i \in RowsA :
            ~IsZeroCell(i) =>
                out.df_updated.rows[i][update_col] = InputA.rows[i][update_col]

(* an invocation that fails: a file that does not parse, a mapping that    *)
(* could not be loaded, or a required column missing                       *)
BothUploaded == file_a.kind # "none" /\ file_b.kind # "none"

Failing ==
    /\ BothUploaded
    /\ \/ file_a.kind = "bad"
       \/ file_b.kind = "bad"
       \/ /\ cache.kind = "frame"
          /\ \/ IsEmpty(Mapping)
             \/ ~RequiredPresent(InputA, InputB, Mapping)

NothingProduced ==
    /\ out.df_updated = NoFrame
    /\ out.updated_count = 0
    /\ out.not_found_count = 0

(* C4: every failing invocation ends with a diagnostic (the error or the   *)
(* warning), produces no update, and nothing is left unhandled.            *)
C4_FailuresHandled ==
    Failing => out.status \in {"error", "warning"} /\ NothingProduced

WorkedExample ==
    /\ file_a = CsvFile(GradeCols, <<GradeRow(Str(T_AX_padded), Str(ZeroText))>>)
    /\ file_b = CsvFile(LiveCols, <<LiveRow(Int(1001), Str(T_85c0))>>)
    /\ cache.kind = "frame"
    /\ Mapping = MakeFrame(MapCols, <<MapRow(Str(T_ax), Str(T_1001_0))>>)
    /\ update_col = ScoreCol
    /\ Updated

C6_NormalizeIdempotent == probe.n = 2 => probe.s = probe.prev

(* C7: after an update the updated count is the number of rows with a new  *)
(* score, the not-found count the number without, and they add up to the   *)
(* number of rows of the grade book.                                       *)
C7_CountsPartition ==
    Updated =>
        /\ out.updated_count = Cardinality({i \in RowsA : NewScoreOf(i) # NaN})
        /\ out.not_found_count = Cardinality({i \in RowsA : NewScoreOf(i) = NaN})
        /\ out.updated_count + out.not_found_count = NRows(InputA)

C7_Witness ==
    /\ Updated
    /\ out.updated_count > 0
    /\ out.not_found_count > 0
    /\ \E i \in RowsA : HasIdentity(i) /\ NewScoreOf(i) = NaN

(* C8: after an update the output has the rows of the input in order and   *)
(* every grade-book column other than the target with the input's values.  *)
C8_Passthrough ==
    TargetInBook =>
        /\ NRows(out.df_updated) = NRows(InputA)
        /\ \A c \in ColSet(InputA) \ {update_col} :
              /\ c \in ColSet(out.df_updated)
              /\ \A i \in RowsA :
                    out.df_updated.rows[i][c] = InputA.rows[i][c]

(* the total the cleaned live scores hold for the last row carrying x      *)
(* or x followed by ".0"                                                   *)
LiveMatches(x) ==
    {j \in 1..NRows(InputB) :
        /\ InputB.rows[j][IdCol].k # "nan"
        /\ Strip(PyStr(InputB.rows[j][IdCol])) \in {x, x \o DotZero}}

(* C9: both sides of the join are normalized alike: a row resolved to      *)
(* identifier X carries X, altered only by the removal of a trailing ".0", *)
(* and gets the total of the LiveScores row whose identifier is X or X.0.  *)
C9_SameNormalization ==
    Processed =>
        \A i \in RowsA :
            HasIdentity(i) =>
                /\ out.df_a.rows[i][IdCol] = Str(ResolvedId(i))
                /\ LiveMatches(ResolvedId(i)) # {} =>
                      \E j \in LiveMatches(ResolvedId(i)) :
                          NewScoreOf(i) = out.df_b.rows[j][TotalCol]

(* C10: the mapping source is read at most once; once retrieved, the       *)
(* cached frame never changes; and when the retrieval gave the empty       *)
(* frame, every run that loads the mapping shows the warning and produces  *)
(* nothing, whatever the remote sheet has become.                          *)
C10_ReadOnceCached ==
    /\ []( /\ reads <= 1
           /\ (reads = 1) <=> (cache.kind = "frame")
           /\ (cache.kind = "frame" /\ IsEmpty(Mapping)
                  /\ LoadsMapping(file_a, file_b))
                 => (out.status = "warning" /\ NothingProduced) )
    /\ [][cache.kind = "frame" => cache' = cache]_vars

C10_Witness ==
    /\ stale >= 1
    /\ cache.kind = "frame"
    /\ IsEmpty(Mapping)
    /\ ~IsEmpty(LoadSheet(sheet))
    /\ LoadsMapping(file_a, file_b)
    /\ out.status = "warning"

====
